---- MODULE Spec2Model ----
(***************************************************************************)
(* A model of dicom_cli.py (DicomTreeApp): the editability policy, the     *)
(* edit path (single record and bulk), file navigation over the cached     *)
(* working set, and the backup / write / cleanup protocol of               *)
(* action_save_file.                                                       *)
(*                                                                         *)
(* Texts are sequences of one-character strings.  A field value is a       *)
(* record [k, s]: k is the python type the value was built from ("file"    *)
(* for a value decoded from a file, "str", "int" or "float" for a value    *)
(* produced by convert_value_for_vr) and s is str(value).                  *)
(***************************************************************************)
EXTENDS Integers, Sequences, FiniteSets, TLC

VARIABLES
    dicom_files,     \* self.dicom_files: the paths given to the app, in order
    current_index,   \* self.current_index, 0-based as in the code
    dataset,         \* self.dataset: [key, obj]; key # NoKey: the object cached under key
    all_datasets,    \* self.all_datasets: insertion-ordered dict, a sequence of [path, ds]
    has_changes,     \* self.has_changes
    tag_map,         \* self.tag_map: the tag_info of every editable node of the tree
    tree_nodes,      \* the leaves of the tree widget that is shown
    cursor_node,     \* tree.cursor_node
    screen,          \* "main", "edit" while EditTagScreen is pushed, "dismissed" once
                     \* it was dismissed and its callback has not run yet
    running,         \* FALSE once self.exit() was called
    disk,            \* file system: path -> bytes of the file at that path
    bak,             \* file system: path -> bytes of '<path>.bak', or NoFile
    pc,              \* position inside action_save_file: "idle", "backup", "write",
                     \* "cleanup", "returned"
    save_i,          \* index of the pair (or of the backup, in cleanup) being processed
    backup_files,    \* local backup_files of action_save_file
    save_result,     \* what the last call of action_save_file gave back to its caller
    disk0,           \* history: disk when the running save started
    written,         \* history: files whose save_as succeeded in the running save
    failed,          \* history: files whose copy2 or save_as raised in the running save
    write_failed,    \* history: files whose save_as raised in the running save
    unlink_failed,   \* history: backups whose unlink raised in the running save
    elem,            \* policy probe: the element handed to is_editable_tag
    editable,        \* policy probe: <<is_editable_tag(elem)>> once it returned
    coerce_in,       \* coercion probe: [value, vr] handed to convert_value_for_vr
    converted,       \* coercion probe: <<outcome of convert_value_for_vr>> once it ended
    show_image,      \* self.show_image: the split view (tags and image) is shown
    new_value,       \* the result EditTagScreen was dismissed with: a text, or Escape
    consistency,     \* <<what is_tag_consistent_across_files returned to action_edit_tag>>
    bulk_returned,   \* <<what the last call of bulk_update_tag returned>>, <<>> for None
    dcmread_calls,   \* history: the files pydicom.dcmread was called on after mount
    quant_in,        \* quantize probe: the pair of intensities handed to the quantize step
    quant_out,       \* quantize probe: <<the two levels>> once the step ended
    shape_in,        \* plane probe: pixel_array.shape
    planes,          \* plane probe: <<the plane each rendering path reduced the array to>>
    render_in,       \* render probe: [path, ds, pixel_array, preset] of the rendering
    stage,           \* render probe: "idle", "plane", "rescaled", "windowed"
    grid,            \* render probe: the local pixel_array of the rendering path
    current_preset,  \* self.current_preset, an index into window_presets (0-based)
    sixel_supported, \* self.sixel_supported
    use_sixel,       \* self.use_sixel
    unicode_image,   \* what the Static #unicode_image shows
    image_widgets,   \* the TextualImage widgets mounted in #image_container, in order
    callbacks,       \* the callbacks call_later has scheduled and that did not run yet
    last_press       \* history: <<[key, from]>> of the last press on_key answered

appvars == <<dicom_files, current_index, dataset, all_datasets, has_changes,
             tag_map, tree_nodes, cursor_node, screen, running>>
fsvars == <<disk, bak>>
savevars == <<pc, save_i, backup_files, save_result>>
histvars == <<disk0, written, failed, write_failed, unlink_failed>>
probevars == <<elem, editable, coerce_in, converted>>
editvars == <<show_image, new_value, consistency, bulk_returned, dcmread_calls>>
rendervars == <<quant_in, quant_out, shape_in, planes, render_in, stage, grid>>
viewvars == <<current_preset, sixel_supported, use_sixel, unicode_image, image_widgets,
              callbacks, last_press>>
vars == <<appvars, fsvars, savevars, histvars, probevars, editvars, rendervars, viewvars>>

(***************************************************************************)
(* Bounds of the model.                                                    *)
(***************************************************************************)
MaxFiles == 2
EditFiles == 3

(***************************************************************************)
(* Sentinels.                                                              *)
(***************************************************************************)
NoElems == <<>>
FileBytes(kind) == [kind |-> kind, elems |-> NoElems]
NoFile == FileBytes("nofile")     \* no file at that path
Partial == FileBytes("partial")   \* bytes left by a write or copy that raised midway
Garbage == FileBytes("garbage")   \* bytes pydicom.dcmread cannot decode
NoKey == 0                  \* self.dataset is an object of its own
NoNode == [path |-> <<>>, tag |-> 0]   \* the tree has no cursor node
None == "None"                    \* python None, where a string is expected
Escape == <<"Escape">>            \* the dialog dismissed with None instead of a text

Paths == 1 .. MaxFiles

(***************************************************************************)
(* Texts.                                                                  *)
(***************************************************************************)
DigitChars == <<"0", "1", "2", "3", "4", "5", "6", "7", "8", "9">>
IsDigit(c) == \E i \in 1 .. 10 : DigitChars[i] = c
IsSpace(c) == c = " "

\* str.lower(), for the upper-case letters of the model's alphabet
lower(t) == [i \in 1 .. Len(t) |-> IF t[i] = "A" THEN "a" ELSE IF t[i] = "N" THEN "n" ELSE t[i]]

RECURSIVE lstrip(_)
lstrip(t) == IF t # <<>> /\ IsSpace(Head(t)) THEN lstrip(Tail(t)) ELSE t

RECURSIVE rstrip(_)
rstrip(t) ==
    IF t # <<>> /\ IsSpace(t[Len(t)]) THEN rstrip(SubSeq(t, 1, Len(t) - 1)) ELSE t

\* str.strip()
strip(t) == rstrip(lstrip(t))

AllDigits(t) == t # <<>> /\ \A i \in 1 .. Len(t) : IsDigit(t[i])

RECURSIVE DropLeadingZeros(_)
DropLeadingZeros(t) ==
    IF Len(t) > 1 /\ Head(t) = "0" THEN DropLeadingZeros(Tail(t)) ELSE t

RECURSIVE DropTrailingZeros(_)
DropTrailingZeros(t) ==
    IF Len(t) > 1 /\ t[Len(t)] = "0"
    THEN DropTrailingZeros(SubSeq(t, 1, Len(t) - 1))
    ELSE t

\* int(value) accepts surrounding whitespace and then needs digits; over the
\* alphabet of the model (digits, letters, space, ".") nothing else parses.
IntParses(t) == AllDigits(strip(t))
IntRepr(t) == DropLeadingZeros(strip(t))

\* the number a DS or IS value of the form [-]digits holds
DigitValue(c) == (CHOOSE i \in 1 .. 10 : DigitChars[i] = c) - 1
RECURSIVE NatOf(_)
NatOf(t) == IF t = <<>> THEN 0 ELSE 10 * NatOf(SubSeq(t, 1, Len(t) - 1)) + DigitValue(t[Len(t)])
NumberOf(t) == IF t # <<>> /\ Head(t) = "-" THEN 0 - NatOf(Tail(t)) ELSE NatOf(t)

DotAt(t) == {i \in 1 .. Len(t) : t[i] = "."}

\* the literal float() takes for not-a-number, in any letter case
IsNanLiteral(t) == lower(strip(t)) = <<"n", "a", "n">>

\* float(value): surrounding whitespace, then digits with at most one "." and at
\* least one digit, or the literal "nan".  (Signs, exponents, "_" and "inf" need
\* characters outside the alphabet of the model.)
FloatParses(t) ==
    LET u == strip(t)
        dots == DotAt(u)
    IN  \/ /\ Cardinality(dots) <= 1
           /\ \E i \in 1 .. Len(u) : IsDigit(u[i])
           /\ \A i \in 1 .. Len(u) : IsDigit(u[i]) \/ u[i] = "."
        \/ IsNanLiteral(t)

\* str(float(value)) for the texts FloatParses accepts
FloatRepr(t) ==
    LET u == strip(t)
        dots == DotAt(u)
        d == IF dots = {} THEN Len(u) + 1 ELSE CHOOSE i \in dots : TRUE
        ip == SubSeq(u, 1, d - 1)
        fp == SubSeq(u, d + 1, Len(u))
    IN  IF IsNanLiteral(t) THEN <<"n", "a", "n">>
        ELSE DropLeadingZeros(IF ip = <<>> THEN <<"0">> ELSE ip) \o <<".">>
                \o DropTrailingZeros(IF fp = <<>> THEN <<"0">> ELSE fp)

(***************************************************************************)
(* Field identifiers.  element.tag is a pydicom BaseTag, an int holding    *)
(* group and element in its high and low 16 bits; the lists of the policy  *)
(* are sets of (group, element) tuples.  Numbers are written in decimal.   *)
(***************************************************************************)
Tag(g, e) == g * 65536 + e
tag_group(tag) == tag \div 65536
tag_element(tag) == tag % 65536

SOPInstanceUID == Tag(8, 24)      \* (0008,0018) UI
PatientName == Tag(16, 16)        \* (0010,0010) PN
InstanceNumber == Tag(32, 19)     \* (0020,0013) IS
PatientWeight == Tag(16, 4144)    \* (0010,1030) DS
PixelData == Tag(32736, 16)       \* (7FE0,0010) OW
PrivateCode == Tag(17, 4097)      \* (0011,1001), a private field
RescaleIntercept == Tag(40, 4178) \* (0028,1052) DS
RescaleSlope == Tag(40, 4179)     \* (0028,1053) DS
Manufacturer == Tag(8, 112)       \* (0008,0070) LO
ContributingEquipmentSequence == Tag(24, 40961)   \* (0018,A001) SQ

\* hash(x) as the set lookup of 'in' uses it.  BaseTag.__hash__ is
\* int.__hash__, the number itself; a tuple has CPython's tuple hash, which
\* is the hash of no identifier (hash((8, 24)) is 3659123147485130528, the
\* identifier (0008,0018) hashes to 524312).
hash_of_tag(tag) == <<"int", tag>>
hash_of_tuple(t) == <<"tuple", t[1], t[2]>>

\* BaseTag.__eq__ with a tuple: the tuple is converted to a tag
tag_eq_tuple(tag, t) == tag = Tag(t[1], t[2])

\* tag in tuples, tuples a set: an entry is found by its hash, then compared
tag_in_set(tag, tuples) ==
    \E t \in tuples : hash_of_tuple(t) = hash_of_tag(tag) /\ tag_eq_tuple(tag, t)

critical_tags ==
    { <<2, 0>>,      \* (0002,0000) File Meta Information Group Length
      <<2, 1>>,      \* (0002,0001) File Meta Information Version
      <<2, 2>>,      \* (0002,0002) Media Storage SOP Class UID
      <<2, 3>>,      \* (0002,0003) Media Storage SOP Instance UID
      <<2, 16>>,     \* (0002,0010) Transfer Syntax UID
      <<8, 22>>,     \* (0008,0016) SOP Class UID
      <<8, 24>> }    \* (0008,0018) SOP Instance UID

editable_vrs ==
    {"CS", "LO", "LT", "PN", "SH", "ST", "UT", "DS", "IS", "AS", "DA", "DT", "TM"}

\* a policy that takes the numeric kinds DS and IS for read-only
is_editable_tag_text_kinds_only(element) ==
    ~tag_in_set(element.tag, critical_tags) /\ element.VR \in editable_vrs \ {"DS", "IS"}

\* DicomTreeApp.is_editable_tag
is_editable_tag(element) ==
    ~tag_in_set(element.tag, critical_tags) /\ element.VR \in editable_vrs

slice_specific_tags ==
    { <<24, 20736>>,   \* (0018,5100) Patient Position
      <<32, 50>>,      \* (0020,0032) Image Position (Patient)
      <<32, 55>>,      \* (0020,0037) Image Orientation (Patient)
      <<32, 4161>>,    \* (0020,1041) Slice Location
      <<32, 19>>,      \* (0020,0013) Instance Number
      <<32, 18>>,      \* (0020,0012) Acquisition Number
      <<8, 50>>,       \* (0008,0032) Acquisition Time
      <<8, 51>>,       \* (0008,0033) Content Time
      <<24, 80>>,      \* (0018,0050) Slice Thickness
      <<40, 4176>>,    \* (0028,1050) Window Center
      <<40, 4177>>,    \* (0028,1051) Window Width
      <<32, 4098>> }   \* (0020,1002) Images in Acquisition

\* DicomTreeApp.is_slice_specific_tag: the tag is converted to a tuple first
is_slice_specific_tag(tag) == <<tag_group(tag), tag_element(tag)>> \in slice_specific_tags

(***************************************************************************)
(* Value coercion.                                                         *)
(***************************************************************************)
\* TRUE when convert_value_for_vr(value, vr) raises ValueError
convert_raises(value, vr) ==
    IF vr = "DS" THEN value # <<>> /\ ~FloatParses(value)
    ELSE IF vr = "IS" THEN value # <<>> /\ ~IntParses(value)
    ELSE FALSE

\* DicomTreeApp.convert_value_for_vr, where it does not raise
convert_value_for_vr(value, vr) ==
    IF vr = "DS"
    THEN [k |-> "float", s |-> IF value # <<>> THEN FloatRepr(value) ELSE <<"0", ".", "0">>]
    ELSE IF vr = "IS"
    THEN [k |-> "int", s |-> IF value # <<>> THEN IntRepr(value) ELSE <<"0">>]
    ELSE [k |-> "str", s |-> strip(value)]

\* str(element.value)
str(value) == value.s

(***************************************************************************)
(* Records and the codec.  A record (pydicom Dataset) is a function from   *)
(* the tags it contains to [VR, value].  The bytes of a file are           *)
(* [kind, elems]: kind "dicom" with the encoded elements, or a sentinel.   *)
(***************************************************************************)
\* Dataset.save_as: every value is written in its string form
encode(ds) ==
    [kind |-> "dicom",
     elems |-> [t \in DOMAIN ds |-> [VR |-> ds[t].VR, s |-> str(ds[t].value)]]]

\* pydicom.dcmread raises on anything but a well-formed file
decodes(bytes) == bytes.kind = "dicom"

\* pydicom.dcmread: a fresh Dataset object holding the file's values
dcmread(bytes) ==
    [t \in DOMAIN bytes.elems |->
        [VR |-> bytes.elems[t].VR, value |-> [k |-> "file", s |-> bytes.elems[t].s]]]

\* The files the session starts from: file f of the series.
InitialText(f) == <<DigitChars[f + 1]>>
InitialDataset(f) ==
    (SOPInstanceUID :> [VR |-> "UI", value |-> [k |-> "file", s |-> InitialText(f)]])
    @@ (PatientName :> [VR |-> "PN",
                        value |-> [k |-> "file", s |-> IF f % 2 = 1 THEN <<"A">> ELSE <<"B">>]])
    @@ (InstanceNumber :> [VR |-> "IS", value |-> [k |-> "file", s |-> InitialText(f)]])

\* File f of an image series: every slice has pixel data, every other slice
\* lacks the patient's weight, and the files disagree on the kind of a private
\* field: an integer string, unknown, or a long string.
PrivateKind(f) == IF f % 3 = 1 THEN "IS" ELSE IF f % 3 = 2 THEN "UN" ELSE "LO"
SeriesDataset(f) ==
    InitialDataset(f)
    @@ (PixelData :> [VR |-> "OW", value |-> [k |-> "file", s |-> InitialText(f)]])
    @@ (PrivateCode :> [VR |-> PrivateKind(f), value |-> [k |-> "file", s |-> <<"1">>]])
    @@ (IF f % 2 = 1
        THEN (PatientWeight :> [VR |-> "DS", value |-> [k |-> "file", s |-> <<"5">>]])
        ELSE <<>>)

\* A backup left on disk by an earlier session: the file before that session's edit.
OldDataset(f) ==
    [InitialDataset(f) EXCEPT ![PatientName].value.s = <<"O">>]

(***************************************************************************)
(* The insertion-ordered dict self.all_datasets.                           *)
(***************************************************************************)
Keys(d) == {d[i].path : i \in 1 .. Len(d)}
IndexOf(d, f) == CHOOSE i \in 1 .. Len(d) : d[i].path = f
Lookup(d, f) == d[IndexOf(d, f)].ds

\* d[f] = ds: replaces in place, or appends a new key
Store(d, f, ds) ==
    IF f \in Keys(d)
    THEN [d EXCEPT ![IndexOf(d, f)].ds = ds]
    ELSE Append(d, [path |-> f, ds |-> ds])

\* self.current_file
current_file == dicom_files[current_index + 1]

\* the Dataset object self.dataset refers to
Displayed ==
    IF dataset.key = NoKey THEN dataset.obj ELSE Lookup(all_datasets, dataset.key)

OwnDataset(ds) == [key |-> NoKey, obj |-> ds]
CachedDataset(f) == [key |-> f, obj |-> <<>>]


(***************************************************************************)
(* Loading and the tree.                                                   *)
(***************************************************************************)
\* DicomTreeApp.load_all_datasets: the loop from position i of dicom_files on
RECURSIVE load_all_from(_, _, _, _)
load_all_from(d, files, fs, i) ==
    IF i > Len(files) THEN d
    ELSE IF files[i] \notin Keys(d) /\ decodes(fs[files[i]])
         THEN load_all_from(Store(d, files[i], dcmread(fs[files[i]])), files, fs, i + 1)
         ELSE load_all_from(d, files, fs, i + 1)

\* DicomTreeApp.load_all_datasets
load_all_datasets(d, files, fs) == load_all_from(d, files, fs, 1)

\* the element with the tag in the sequence item the path leads to; a path is
\* <<>> at the top of the record, else path + [element.tag, i] as the code
\* builds it; the value of an SQ element is the sequence of its items
RECURSIVE ElementAt(_, _, _)
ElementAt(ds, path, tag) ==
    IF path = <<>> THEN ds[tag]
    ELSE ElementAt(ds[path[1]].value.s[path[2] + 1], SubSeq(path, 3, Len(path)), tag)

\* the nodes add_element_to_tree adds for the elements of ds: one per element,
\* and under a sequence those of the elements of its items
RECURSIVE nodes_under(_, _)
nodes_under(ds, path) ==
    {[path |-> path, tag |-> t] : t \in DOMAIN ds}
    \cup UNION {UNION {nodes_under(ds[t].value.s[i], path \o <<t, i - 1>>) :
                          i \in 1 .. Len(ds[t].value.s)} :
                   t \in {u \in DOMAIN ds : ds[u].VR = "SQ"}}

tree_of(ds) == nodes_under(ds, <<>>)

\* a tree that offers the per-slice fields in multi-file mode too
offered_for_edit_slice_fields_too(element, nfiles) ==
    /\ element.VR # "SQ"
    /\ is_editable_tag(element)

\* a tree that offers the fields the policy rejects
offered_for_edit_any_kind(element, nfiles) ==
    /\ element.VR # "SQ"
    /\ ~(nfiles > 1 /\ is_slice_specific_tag(element.tag))

\* the condition under which add_element_to_tree stores a tag_info for the node
offered_for_edit(element, nfiles) ==
    /\ element.VR # "SQ"
    /\ is_editable_tag(element)
    /\ ~(nfiles > 1 /\ is_slice_specific_tag(element.tag))

\* DicomTreeApp.populate_tree / add_element_to_tree: the tag_map they build
tag_map_of(ds, nfiles) ==
    [n \in {m \in tree_of(ds) :
                offered_for_edit([tag |-> m.tag, VR |-> ElementAt(ds, m.path, m.tag).VR],
                                 nfiles)} |->
        [tag |-> n.tag, vr |-> ElementAt(ds, n.path, n.tag).VR, path |-> n.path]]

(***************************************************************************)
(* The texts an operator submits in the edit dialog.                       *)
(***************************************************************************)
EditTexts == { <<"A">>, <<" ", "7">> }

(***************************************************************************)
(* The policy probe is idle in the application's specification.            *)
(***************************************************************************)
NoElement == [tag |-> 0, VR |-> "UN"]
NoInput == [value |-> <<>>, vr |-> "UN"]
CoerceIdle == coerce_in = NoInput /\ converted = <<>>
ProbeIdle == elem = NoElement /\ editable = <<>> /\ CoerceIdle

\* a window preset (name, width, center); width and center are <<>> for None
Preset(name, width, center) == [name |-> name, width |-> width, center |-> center]

\* the probes of the rendering pipeline are idle
NoRender ==
    [path |-> "unicode", ds |-> <<>>, pixel_array |-> <<>>,
     preset |-> Preset("Auto", <<>>, <<>>)]
RenderIdle ==
    /\ quant_in = <<0, 0>>
    /\ quant_out = <<>>
    /\ shape_in = <<>>
    /\ planes = <<>>
    /\ render_in = NoRender
    /\ stage = "idle"
    /\ grid = <<>>

\* DicomTreeApp.__init__ and compose: the first preset, blocks, an empty image
\* panel, nothing scheduled
NoContent == [kind |-> "empty", image |-> <<>>]
ViewIdle ==
    /\ current_preset = 0
    /\ sixel_supported = FALSE
    /\ use_sixel = FALSE
    /\ unicode_image = NoContent
    /\ image_widgets = <<>>
    /\ callbacks = <<>>
    /\ last_press = <<>>

\* DicomTreeApp.__init__: the full view, no dialog, nothing decoded after mount
EditIdle ==
    /\ show_image = FALSE
    /\ new_value = Escape
    /\ consistency = <<>>
    /\ bulk_returned = <<>>
    /\ dcmread_calls = {}

SaveIdle ==
    /\ pc = "idle"
    /\ save_i = 0
    /\ backup_files = <<>>
    /\ save_result = "NotCalled"

HistEmpty ==
    /\ disk0 = disk
    /\ written = {}
    /\ failed = {}
    /\ write_failed = {}
    /\ unlink_failed = {}

(***************************************************************************)
(* The state after __init__ and on_mount: the first file decoded (the app  *)
(* exits otherwise), every decodable file cached when there are several.   *)
(***************************************************************************)
Init ==
    \E n \in 1 .. MaxFiles, bad \in {{}, {MaxFiles}}, old \in {{}, {1}} :
        /\ bad \subseteq 2 .. n
        /\ dicom_files = [i \in 1 .. n |-> i]
        /\ current_index = 0
        /\ disk = [f \in Paths |->
                     IF f > n THEN NoFile
                     ELSE IF f \in bad THEN Garbage
                     ELSE encode(InitialDataset(f))]
        /\ bak = [f \in Paths |-> IF f \in old THEN encode(OldDataset(f)) ELSE NoFile]
        /\ dataset = OwnDataset(dcmread(disk[1]))
        /\ all_datasets = IF n > 1 THEN load_all_datasets(<<>>, dicom_files, disk) ELSE <<>>
        /\ has_changes = FALSE
        /\ tree_nodes = tree_of(dataset.obj)
        /\ tag_map = tag_map_of(dataset.obj, n)
        /\ cursor_node = NoNode
        /\ screen = "main"
        /\ running = TRUE
        /\ SaveIdle
        /\ HistEmpty
        /\ ProbeIdle
        /\ EditIdle
        /\ RenderIdle
        /\ ViewIdle

(***************************************************************************)
(* The rendering pipeline: reduction to a plane, rescale, windowing and    *)
(* the quantize step.  A grid is a sequence of samples (the plane read     *)
(* row by row); the arithmetic of the code is float32 and is exact on the  *)
(* integers of the model, so the model computes with integers.             *)
(***************************************************************************)
\* self.window_presets; width and center are <<>> for None
window_presets ==
    << Preset("Auto", <<>>, <<>>),
       Preset("Soft Tissue", <<350>>, <<40>>),
       Preset("Lung", <<1500>>, <<-600>>),
       Preset("Bone", <<2000>>, <<300>>),
       Preset("Brain", <<80>>, <<40>>),
       Preset("Liver", <<150>>, <<30>>),
       Preset("Mediastinum", <<350>>, <<50>> ) >>

\* pixel_array.min() and pixel_array.max()
GridMin(g) == CHOOSE x \in {g[i] : i \in 1 .. Len(g)} : \A j \in 1 .. Len(g) : x <= g[j]
GridMax(g) == CHOOSE x \in {g[i] : i \in 1 .. Len(g)} : \A j \in 1 .. Len(g) : x >= g[j]

\* np.clip(x, lo, hi): minimum(maximum(x, lo), hi)
clip(x, lo, hi) ==
    LET m == IF x < lo THEN lo ELSE x
    IN  IF m > hi THEN hi ELSE m

\* an auto window over the range a 12-bit sample can take, whatever the data
window_auto_full_range(pixel_array) ==
    [i \in 1 .. Len(pixel_array) |-> clip((pixel_array[i] * 255) \div 4095, 0, 255)]

\* the auto branch of apply_windowing
window_auto(pixel_array) ==
    LET pixel_min == GridMin(pixel_array)
        pixel_max == GridMax(pixel_array)
    IN  [i \in 1 .. Len(pixel_array) |->
            IF pixel_max > pixel_min
            THEN ((pixel_array[i] - pixel_min) * 255) \div (pixel_max - pixel_min)
            ELSE 0]

\* a fixed window that does not clip: a sample outside the window wraps around
\* in the conversion to 8 bits
window_fixed_unclipped(pixel_array, window_width, window_center) ==
    LET lower2 == 2 * window_center - window_width
        upper2 == 2 * window_center + window_width
    IN  [i \in 1 .. Len(pixel_array) |->
            IF upper2 > lower2
            THEN (((2 * pixel_array[i] - lower2) * 255) \div (upper2 - lower2)) % 256
            ELSE 0]

\* the fixed branch of apply_windowing; the bounds center -/+ width / 2.0 and the
\* samples are kept doubled, which leaves the quotient as it is
window_fixed(pixel_array, window_width, window_center) ==
    LET lower2 == 2 * window_center - window_width
        upper2 == 2 * window_center + window_width
    IN  [i \in 1 .. Len(pixel_array) |->
            IF upper2 > lower2
            THEN ((clip(2 * pixel_array[i], lower2, upper2) - lower2) * 255)
                     \div (upper2 - lower2)
            ELSE 0]

\* DicomTreeApp.apply_windowing for the preset that is current
apply_windowing(pixel_array, preset) ==
    IF preset.name = "Auto" \/ preset.width = <<>>
    THEN window_auto(pixel_array)
    ELSE window_fixed(pixel_array, preset.width[1], preset.center[1])

\* getattr(self.dataset, 'RescaleSlope', 1.0), getattr(.., 'RescaleIntercept', 0.0)
rescale_slope(ds) ==
    IF RescaleSlope \in DOMAIN ds THEN NumberOf(str(ds[RescaleSlope].value)) ELSE 1
rescale_intercept(ds) ==
    IF RescaleIntercept \in DOMAIN ds THEN NumberOf(str(ds[RescaleIntercept].value)) ELSE 0

\* a rescale that leaves the samples as they are stored
apply_no_rescaling(ds, pixel_array) == pixel_array

\* DicomTreeApp.apply_dicom_rescaling, for a record whose slope and intercept
\* are numbers (the except branch needs one that is not)
apply_dicom_rescaling(ds, pixel_array) ==
    [i \in 1 .. Len(pixel_array) |->
        pixel_array[i] * rescale_slope(ds) + rescale_intercept(ds)]

\* a step that folds the intensities into eight levels without regard to order
quantize_folded(intensity) == intensity % 8

\* (resized_array // 32).clip(0, 7) of pixel_array_to_unicode, for one intensity
quantize(intensity) == clip(intensity \div 32, 0, 7)

(***************************************************************************)
(* The image panel.  call_later posts the callback to the app's message    *)
(* queue, where it waits behind the events already queued; callbacks is    *)
(* that queue without the key events, which the model draws one by one.    *)
(* A callback is an update_image_view or a _mount_textual_image with the   *)
(* image and the widget id its lambda captured.                            *)
(***************************************************************************)
MaxPending == 2

Callback(kind, id, image) == [kind |-> kind, id |-> id, image |-> image]
UpdateCallback == Callback("update", <<>>, <<>>)
call_later(queue, callback) == Append(queue, callback)

\* dataset.pixel_array of the model's files: three samples, the middle one
\* decoded from the stored pixel data
pixel_array(ds) == <<0, 40 * NatOf(ds[PixelData].value.s), 120>>

\* get_pil_image_for_display: rescale, then the window of the preset (the
\* thumbnail resampling is left out)
get_pil_image_for_display(ds, preset) ==
    apply_windowing(apply_dicom_rescaling(ds, pixel_array(ds)), window_presets[preset + 1])

\* pixel_array_to_unicode: rescale, window, one block level per sample
pixel_array_to_unicode(ds, preset) ==
    LET windowed == apply_windowing(apply_dicom_rescaling(ds, pixel_array(ds)),
                                    window_presets[preset + 1])
    IN  [kind |-> "blocks", image |-> [i \in 1 .. Len(windowed) |-> quantize(windowed[i])]]

\* f"textual_image_{str(SOPInstanceUID).replace('.', '_')}"
unique_id(ds) ==
    LET uid == str(ds[SOPInstanceUID].value)
    IN  <<"textual_image_">> \o [i \in 1 .. Len(uid) |-> IF uid[i] = "." THEN "_" ELSE uid[i]]

Mounted(id) == \E i \in 1 .. Len(image_widgets) : image_widgets[i].id = id

\* an action bound to a key runs when the app runs, no dialog is open and no
\* other handler is running
Ready == running /\ screen = "main" /\ pc = "idle"

\* populate_tree: tree.clear() drops the cursor, the tree and tag_map are rebuilt
populate_tree(ds) ==
    /\ tree_nodes' = tree_of(ds)
    /\ tag_map' = tag_map_of(ds, Len(dicom_files))
    /\ cursor_node' = NoNode

\* action_cursor_down / action_cursor_up: the cursor moves to another leaf
action_cursor ==
    /\ Ready
    /\ \E n \in tree_nodes :
        /\ n # cursor_node
        /\ cursor_node' = n
    /\ UNCHANGED <<dicom_files, current_index, dataset, all_datasets, has_changes,
                   tag_map, tree_nodes, screen, running>>
    /\ UNCHANGED <<fsvars, savevars, histvars, probevars, rendervars, viewvars, editvars>>

\* DicomTreeApp.action_view_image: without pixel data it notifies and returns;
\* else it toggles the view, populates the tree of the view shown and, for the
\* split view, schedules the image update
action_view_image ==
    /\ Ready
    /\ PixelData \in DOMAIN Displayed
    /\ show_image' = ~show_image
    /\ populate_tree(Displayed)
    /\ IF show_image'
       THEN /\ Len(callbacks) < MaxPending
            /\ callbacks' = call_later(callbacks, UpdateCallback)
       ELSE UNCHANGED callbacks
    /\ UNCHANGED <<dicom_files, current_index, dataset, all_datasets, has_changes,
                   screen, running>>
    /\ UNCHANGED <<new_value, consistency, bulk_returned, dcmread_calls>>
    /\ UNCHANGED <<current_preset, sixel_supported, use_sixel, unicode_image,
                   image_widgets, last_press>>
    /\ UNCHANGED <<fsvars, savevars, histvars, probevars, rendervars>>

\* DicomTreeApp.get_tag_values_across_files: per record of d, <<str(value)>> or
\* <<>> for None when the record lacks the tag
get_tag_values_across_files(d, tag) ==
    [i \in 1 .. Len(d) |->
        IF tag \in DOMAIN d[i].ds THEN <<str(d[i].ds[tag].value)>> ELSE <<>>]

\* set(v for v in values.values() if v is not None)
unique_values(values) ==
    {values[i][1] : i \in {j \in 1 .. Len(values) : values[j] # <<>>}}

\* the two shapes is_tag_consistent_across_files returns: (True, value or None) and
\* (False, "Mixed values: " + up to three of the values + "..." when there are more)
Consistent(value) ==
    [is_consistent |-> TRUE, value |-> value, samples |-> {}, more |-> FALSE]
Divergent(samples, more) ==
    [is_consistent |-> FALSE, value |-> <<>>, samples |-> samples, more |-> more]

\* list(unique_values)[:3]: the first three in the iteration order of the set,
\* which is any order
first_three(u) ==
    {x \in SUBSET u : Cardinality(x) = IF Cardinality(u) > 3 THEN 3 ELSE Cardinality(u)}

\* a check that counts a record lacking the tag as one more value
is_tag_consistent_counting_absent(files, d, tag) ==
    IF Len(files) <= 1 THEN {Consistent(<<>>)}
    ELSE LET values == get_tag_values_across_files(d, tag)
             u == unique_values(values)
             n == Cardinality(u) + IF \E i \in 1 .. Len(values) : values[i] = <<>>
                                   THEN 1 ELSE 0
         IN  IF n <= 1
             THEN {Consistent(IF u = {} THEN <<>> ELSE <<CHOOSE v \in u : TRUE>>)}
             ELSE {Divergent(x, Cardinality(u) > 3) : x \in first_three(u)}

\* DicomTreeApp.is_tag_consistent_across_files: the results it can return
is_tag_consistent_across_files(files, d, tag) ==
    IF Len(files) <= 1 THEN {Consistent(<<>>)}
    ELSE LET u == unique_values(get_tag_values_across_files(d, tag))
         IN  IF Cardinality(u) <= 1
             THEN {Consistent(IF u = {} THEN <<>> ELSE <<CHOOSE v \in u : TRUE>>)}
             ELSE {Divergent(x, Cardinality(u) > 3) : x \in first_three(u)}

\* DicomTreeApp.action_edit_tag: the dialog opens for a node of tag_map; in
\* multi-file mode the consistency of the tag is computed for the dialog
action_edit_tag ==
    /\ Ready
    /\ cursor_node \in DOMAIN tag_map
    /\ screen' = "edit"
    /\ IF Len(dicom_files) > 1
       THEN \E r \in is_tag_consistent_across_files(dicom_files, all_datasets,
                                                    tag_map[cursor_node].tag) :
                consistency' = <<r>>
       ELSE consistency' = <<>>
    /\ UNCHANGED <<dicom_files, current_index, dataset, all_datasets, has_changes,
                   tag_map, tree_nodes, cursor_node, running>>
    /\ UNCHANGED <<show_image, new_value, bulk_returned, dcmread_calls>>
    /\ UNCHANGED <<fsvars, savevars, histvars, probevars, rendervars, viewvars>>

\* EditTagScreen.on_input_submitted: Enter dismisses the dialog with the text
on_input_submitted(value) ==
    /\ running
    /\ screen = "edit"
    /\ screen' = "dismissed"
    /\ new_value' = value
    /\ UNCHANGED <<dicom_files, current_index, dataset, all_datasets, has_changes,
                   tag_map, tree_nodes, cursor_node, running>>
    /\ UNCHANGED <<show_image, consistency, bulk_returned, dcmread_calls>>
    /\ UNCHANGED <<fsvars, savevars, histvars, probevars, rendervars, viewvars>>

\* EditTagScreen.on_key: Escape dismisses the dialog with None
on_key_escape == on_input_submitted(Escape)

\* element.value = new_value on one record
set_value(ds, tag, value) == [ds EXCEPT ![tag].value = value]

\* the assignment raises ValueError: pydicom converts what is assigned to an IS
\* or DS element to a number, and a string that is no number has none
set_raises(vr, value) ==
    /\ value.k = "str"
    /\ value.s # <<>>
    /\ \/ vr = "IS" /\ ~IntParses(value.s)
       \/ vr = "DS" /\ ~FloatParses(value.s)

\* a loop that writes the displayed record only
bulk_update_current_only(d, tag, value) ==
    [i \in 1 .. Len(d) |->
        IF /\ d[i].path = dicom_files[current_index + 1]
           /\ tag \in DOMAIN d[i].ds
           /\ is_editable_tag([tag |-> tag, VR |-> d[i].ds[tag].VR])
           /\ ~set_raises(d[i].ds[tag].VR, value)
        THEN [d[i] EXCEPT !.ds = set_value(d[i].ds, tag, value)]
        ELSE d[i]]

\* the records loop of bulk_update_tag: a record whose assignment raises is
\* left as it was and the loop goes on
bulk_update_records(d, tag, value) ==
    [i \in 1 .. Len(d) |->
        IF /\ tag \in DOMAIN d[i].ds
           /\ is_editable_tag([tag |-> tag, VR |-> d[i].ds[tag].VR])
           /\ ~set_raises(d[i].ds[tag].VR, value)
        THEN [d[i] EXCEPT !.ds = set_value(d[i].ds, tag, value)]
        ELSE d[i]]

\* DicomTreeApp.bulk_update_tag: declared '-> None', it returns nothing
bulk_update_tag(tag, value) ==
    /\ all_datasets' = bulk_update_records(all_datasets, tag, value)
    /\ dataset' = IF Len(dicom_files) > 1 /\ current_file \in Keys(all_datasets)
                  THEN CachedDataset(current_file)
                  ELSE dataset
    /\ bulk_returned' = <<>>

\* element.value = new_value on the element the path leads to
RECURSIVE set_value_at(_, _, _, _)
set_value_at(ds, path, tag, value) ==
    IF path = <<>> THEN set_value(ds, tag, value)
    ELSE [ds EXCEPT ![path[1]].value.s[path[2] + 1] =
              set_value_at(@, SubSeq(path, 3, Len(path)), tag, value)]

\* tag_info['element'].value = converted_value: the element of the displayed
\* object the node was built from
single_update_tag(tag_info, value) ==
    /\ IF dataset.key = NoKey
       THEN /\ dataset' = [dataset EXCEPT
                              !.obj = set_value_at(dataset.obj, tag_info.path, tag_info.tag, value)]
            /\ UNCHANGED all_datasets
       ELSE /\ all_datasets' = Store(all_datasets, dataset.key,
                                     set_value_at(Lookup(all_datasets, dataset.key),
                                                  tag_info.path, tag_info.tag, value))
            /\ UNCHANGED dataset
    /\ UNCHANGED bulk_returned

\* str(tag_info['element'].value) for the node under the cursor
current_value ==
    str(ElementAt(Displayed, tag_map[cursor_node].path, tag_map[cursor_node].tag).value)

\* a handler that goes on to the update when the conversion raised
edit_accepted_unconverted ==
    /\ new_value # Escape
    /\ cursor_node \in DOMAIN tag_map
    /\ new_value # current_value

\* a handler that applies the edit whether or not the text is the current value
edit_accepted_unchanged_too ==
    /\ new_value # Escape
    /\ cursor_node \in DOMAIN tag_map
    /\ ~convert_raises(new_value, tag_map[cursor_node].vr)

\* the conditions of handle_edit_result under which the edit is applied
edit_accepted ==
    /\ new_value # Escape
    /\ cursor_node \in DOMAIN tag_map
    /\ new_value # current_value
    /\ ~convert_raises(new_value, tag_map[cursor_node].vr)

\* DicomTreeApp.handle_edit_result: the callback of the dismissed dialog
handle_edit_result ==
    /\ running
    /\ screen = "dismissed"
    /\ screen' = "main"
    /\ new_value' = Escape
    /\ consistency' = <<>>
    /\ IF edit_accepted
       THEN LET tag_info == tag_map[cursor_node]
                converted_value == convert_value_for_vr(new_value, tag_info.vr)
            IN  /\ IF Len(dicom_files) > 1
                   THEN bulk_update_tag(tag_info.tag, converted_value)
                   ELSE single_update_tag(tag_info, converted_value)
                /\ has_changes' = TRUE
                /\ populate_tree(Displayed')
       ELSE UNCHANGED <<dataset, all_datasets, has_changes, tag_map, tree_nodes,
                        cursor_node, bulk_returned>>
    /\ UNCHANGED <<dicom_files, current_index, running, show_image, dcmread_calls>>
    /\ UNCHANGED <<fsvars, savevars, histvars, probevars, rendervars, viewvars>>

\* a switch that decodes the file again whether or not it is cached
switch_always_decodes(f) ==
    IF decodes(disk[f])
    THEN /\ dataset' = OwnDataset(dcmread(disk[f]))
         /\ dcmread_calls' = dcmread_calls \cup {f}
         /\ UNCHANGED <<all_datasets, running>>
    ELSE /\ running' = FALSE
         /\ dcmread_calls' = dcmread_calls \cup {f}
         /\ UNCHANGED <<dataset, all_datasets>>

\* DicomTreeApp.switch_to_current_file (with load_dicom_file), for the new index
switch_to_current_file(f) ==
    IF Len(dicom_files) > 1 /\ f \in Keys(all_datasets)
    THEN /\ dataset' = CachedDataset(f)
         /\ UNCHANGED <<all_datasets, running, dcmread_calls>>
    ELSE IF decodes(disk[f])
    THEN /\ dataset' = OwnDataset(dcmread(disk[f]))
         /\ all_datasets' = IF Len(dicom_files) > 1
                            THEN load_all_datasets(all_datasets, dicom_files, disk)
                            ELSE all_datasets
         /\ dcmread_calls' = dcmread_calls \cup {f}
                \cup IF Len(dicom_files) > 1
                     THEN {dicom_files[i] : i \in 1 .. Len(dicom_files)}
                              \ Keys(all_datasets)
                     ELSE {}
         /\ UNCHANGED running
    ELSE /\ running' = FALSE
         /\ dcmread_calls' = dcmread_calls \cup {f}
         /\ UNCHANGED <<dataset, all_datasets>>

\* action_next_file (step = 1) and action_prev_file (step = -1)
navigate(step) ==
    /\ Ready
    /\ Len(dicom_files) > 1
    /\ current_index' = (current_index + step) % Len(dicom_files)
    /\ switch_to_current_file(dicom_files[current_index' + 1])
    /\ populate_tree(Displayed')
    /\ IF show_image
       THEN /\ Len(callbacks) < MaxPending
            /\ callbacks' = call_later(callbacks, UpdateCallback)
       ELSE UNCHANGED callbacks
    /\ UNCHANGED <<dicom_files, has_changes, screen>>
    /\ UNCHANGED <<show_image, new_value, consistency, bulk_returned>>
    /\ UNCHANGED <<current_preset, sixel_supported, use_sixel, unicode_image,
                   image_widgets, last_press>>
    /\ UNCHANGED <<fsvars, savevars, histvars, probevars, rendervars>>

action_next_file == navigate(1)

action_prev_file == navigate(-1)

\* DicomTreeApp.update_image_view for the record shown, called with the queue
\* as the caller leaves it.  Sixel: the widget of this id is removed, or else
\* every image widget, and the mount of the new image is scheduled.  Blocks:
\* the Static gets the new content and every image widget is removed.
\* (Widget.remove is taken to complete at once.)
update_image_view(queue) ==
    IF PixelData \notin DOMAIN Displayed
    THEN /\ unicode_image' = [kind |-> "no pixel data", image |-> <<>>]
         /\ callbacks' = queue
         /\ UNCHANGED image_widgets
    ELSE IF use_sixel' /\ sixel_supported
    THEN /\ image_widgets' =
                IF Mounted(unique_id(Displayed))
                THEN SelectSeq(image_widgets, LAMBDA w : w.id # unique_id(Displayed))
                ELSE <<>>
         /\ callbacks' = call_later(queue,
                Callback("mount", unique_id(Displayed),
                         get_pil_image_for_display(Displayed, current_preset')))
         /\ UNCHANGED unicode_image
    ELSE /\ unicode_image' = pixel_array_to_unicode(Displayed, current_preset')
         /\ image_widgets' = <<>>
         /\ callbacks' = queue

\* DicomTreeApp._mount_textual_image: the new widget goes right after the
\* Static and the Static is blanked; mounting an id that is mounted already
\* raises DuplicateIds, which ends the app
mount_textual_image(callback) ==
    IF Mounted(callback.id)
    THEN /\ running' = FALSE
         /\ UNCHANGED <<unicode_image, image_widgets>>
    ELSE /\ image_widgets' = <<[id |-> callback.id, image |-> callback.image]>> \o image_widgets
         /\ unicode_image' = NoContent
         /\ UNCHANGED running

\* a preset index that stops at the ends of the list instead of wrapping
step_preset_clamped(preset, step) == clip(preset + step, 0, Len(window_presets) - 1)

\* (self.current_preset +/- 1) % len(self.window_presets)
step_preset(preset, step) == (preset + step) % Len(window_presets)

\* DicomTreeApp.on_key for "w" and "s": in the image view the preset steps and
\* the image is refreshed at once; in the tag view the handler does nothing
on_key(key) ==
    /\ Ready
    /\ show_image
    /\ key \in {"w", "s"}
    /\ Len(callbacks) < MaxPending
    /\ current_preset' = step_preset(current_preset, IF key = "w" THEN 1 ELSE -1)
    /\ last_press' = <<[key |-> key, from |-> current_preset]>>
    /\ UNCHANGED <<sixel_supported, use_sixel>>
    /\ update_image_view(callbacks)
    /\ UNCHANGED <<appvars, fsvars, savevars, histvars, probevars, editvars, rendervars>>

\* DicomTreeApp.action_toggle_sixel: returns without sixel support or outside
\* the image view; else it flips the mode and refreshes the image at once
action_toggle_sixel ==
    /\ Ready
    /\ sixel_supported
    /\ show_image
    /\ Len(callbacks) < MaxPending
    /\ use_sixel' = ~use_sixel
    /\ UNCHANGED <<current_preset, sixel_supported, last_press>>
    /\ update_image_view(callbacks)
    /\ UNCHANGED <<appvars, fsvars, savevars, histvars, probevars, editvars, rendervars>>

\* the app takes the next callback from its queue and runs it
run_callback ==
    /\ running
    /\ pc = "idle"
    /\ callbacks # <<>>
    /\ UNCHANGED <<current_preset, sixel_supported, use_sixel, last_press>>
    /\ IF Head(callbacks).kind = "update"
       THEN /\ update_image_view(Tail(callbacks))
            /\ UNCHANGED running
       ELSE /\ mount_textual_image(Head(callbacks))
            /\ callbacks' = Tail(callbacks)
    /\ UNCHANGED <<dicom_files, current_index, dataset, all_datasets, has_changes,
                   tag_map, tree_nodes, cursor_node, screen>>
    /\ UNCHANGED <<fsvars, savevars, histvars, probevars, editvars, rendervars>>

(***************************************************************************)
(* action_save_file.  The handler runs to completion: while pc # "idle" no *)
(* other handler is enabled.  Each step is one file-system call; a call    *)
(* that can raise chooses its outcome.                                     *)
(***************************************************************************)
appvars_but_flag == <<dicom_files, current_index, dataset, all_datasets,
                      tag_map, tree_nodes, cursor_node, screen, running>>

\* the (file_path, dataset) pairs the save iterates over
save_items ==
    IF Len(dicom_files) > 1
    THEN all_datasets
    ELSE <<[path |-> current_file, ds |-> Displayed]>>

save_file == save_items[save_i].path

\* variants of the test below: the copy made whatever is on disk, and never made
backup_needed_always(f) == TRUE
backup_needed_never(f) == FALSE

\* if not backup_path.exists()
backup_needed(f) == bak[f] = NoFile

\* variant of the except branch below that also clears the flag
save_except_clears_flag ==
    /\ pc' = "returned"
    /\ save_result' = None
    /\ has_changes' = FALSE
    /\ UNCHANGED <<save_i, backup_files>>

\* except Exception: pass -- the handler returns, nothing is reported or undone
save_except ==
    /\ pc' = "returned"
    /\ save_result' = None
    /\ UNCHANGED <<has_changes, save_i, backup_files>>

\* DicomTreeApp.action_save_file, entry: if self.has_changes, backup_files = []
action_save_file ==
    /\ Ready
    /\ has_changes
    /\ pc' = "backup"
    /\ save_i' = 1
    /\ UNCHANGED <<appvars, fsvars, backup_files, save_result, histvars, probevars,
                   rendervars, viewvars, editvars>>

\* the backup of one file: shutil.copy2(file_path, backup_path) unless a backup exists
save_backup ==
    /\ pc = "backup"
    /\ IF backup_needed(save_file)
       THEN \/ /\ bak' = [bak EXCEPT ![save_file] = disk[save_file]]
               /\ backup_files' = Append(backup_files, save_file)
               /\ pc' = "write"
               /\ UNCHANGED <<has_changes, save_i, save_result, failed>>
            \/ \E left \in {bak[save_file], Partial} :
                /\ bak' = [bak EXCEPT ![save_file] = left]
                /\ failed' = failed \cup {save_file}
                /\ save_except
       ELSE /\ pc' = "write"
            /\ UNCHANGED <<bak, backup_files, has_changes, save_i, save_result, failed>>
    /\ UNCHANGED <<appvars_but_flag, disk, probevars, rendervars, viewvars, editvars>>
    /\ UNCHANGED <<disk0, written, write_failed, unlink_failed>>

\* where the loop goes after a successful save_as
after_write ==
    IF save_i < Len(save_items)
    THEN /\ pc' = "backup"
         /\ save_i' = save_i + 1
    ELSE /\ pc' = "cleanup"
         /\ save_i' = 1

\* the write of one file: dataset.save_as(str(file_path)) over the original path
save_write ==
    /\ pc = "write"
    /\ \/ /\ disk' = [disk EXCEPT ![save_file] = encode(save_items[save_i].ds)]
          /\ written' = written \cup {save_file}
          /\ after_write
          /\ UNCHANGED <<has_changes, backup_files, save_result, failed, write_failed>>
       \/ \E left \in {disk[save_file], Partial} :
            /\ disk' = [disk EXCEPT ![save_file] = left]
            /\ failed' = failed \cup {save_file}
            /\ write_failed' = write_failed \cup {save_file}
            /\ save_except
            /\ UNCHANGED written
    /\ UNCHANGED <<appvars_but_flag, bak, probevars, rendervars, viewvars, editvars>>
    /\ UNCHANGED <<disk0, unlink_failed>>

\* variant of the branch below in which the exception leaves the handler
unlink_raised_aborts(b) ==
    /\ unlink_failed' = unlink_failed \cup {b}
    /\ pc' = "returned"
    /\ save_result' = None
    /\ UNCHANGED <<bak, save_i>>

\* cleanup_backup_files, when backup_path.unlink() raises: except Exception: pass
unlink_raised(b) ==
    /\ unlink_failed' = unlink_failed \cup {b}
    /\ save_i' = save_i + 1
    /\ UNCHANGED <<bak, pc, save_result>>

\* DicomTreeApp.cleanup_backup_files: one turn of its loop
save_unlink ==
    /\ pc = "cleanup"
    /\ save_i <= Len(backup_files)
    /\ LET b == backup_files[save_i]
       IN  IF bak[b] # NoFile
           THEN \/ /\ bak' = [bak EXCEPT ![b] = NoFile]
                   /\ save_i' = save_i + 1
                   /\ UNCHANGED <<pc, save_result, unlink_failed>>
                \/ unlink_raised(b)
           ELSE /\ save_i' = save_i + 1
                /\ UNCHANGED <<bak, pc, save_result, unlink_failed>>
    /\ UNCHANGED <<appvars, disk, backup_files, probevars, rendervars, viewvars, editvars>>
    /\ UNCHANGED <<disk0, written, failed, write_failed>>

\* action_save_file after cleanup_backup_files: has_changes = False, update_title
save_finish ==
    /\ pc = "cleanup"
    /\ save_i > Len(backup_files)
    /\ has_changes' = FALSE
    /\ pc' = "returned"
    /\ save_result' = None
    /\ UNCHANGED <<appvars_but_flag, fsvars, save_i, backup_files, histvars, probevars,
                   rendervars, viewvars, editvars>>

\* the handler is left: its locals are gone, the event loop takes the next key
save_return ==
    /\ pc = "returned"
    /\ pc' = "idle"
    /\ save_i' = 0
    /\ backup_files' = <<>>
    /\ disk0' = disk
    /\ written' = {}
    /\ failed' = {}
    /\ write_failed' = {}
    /\ unlink_failed' = {}
    /\ UNCHANGED <<appvars, fsvars, save_result, probevars, rendervars, viewvars, editvars>>

(***************************************************************************)
(* The application.                                                        *)
(***************************************************************************)
Next ==
    \/ action_cursor
    \/ action_edit_tag
    \/ \E value \in EditTexts : on_input_submitted(value)
    \/ on_key_escape
    \/ handle_edit_result
    \/ action_next_file
    \/ action_prev_file
    \/ action_save_file
    \/ save_backup
    \/ save_write
    \/ save_unlink
    \/ save_finish
    \/ save_return

Spec == Init /\ [][Next]_vars

(***************************************************************************)
(* An editing session over an image series of EditFiles slices: the edit   *)
(* dialog, file navigation and the view toggle, without saving.  The app   *)
(* is given the first n files; the last of them may be one pydicom cannot  *)
(* decode.                                                                 *)
(***************************************************************************)
EditPaths == 1 .. EditFiles

InitEdit ==
    \E n \in EditPaths, bad \in SUBSET EditPaths :
        /\ bad \in {{}, {n}}
        /\ bad \subseteq 2 .. n
        /\ dicom_files = [i \in 1 .. n |-> i]
        /\ current_index = 0
        /\ disk = [f \in EditPaths |->
                      IF f \in bad THEN Garbage ELSE encode(SeriesDataset(f))]
        /\ bak = [f \in EditPaths |-> NoFile]
        /\ dataset = OwnDataset(dcmread(disk[1]))
        /\ all_datasets = IF n > 1 THEN load_all_datasets(<<>>, dicom_files, disk) ELSE <<>>
        /\ has_changes = FALSE
        /\ tree_nodes = tree_of(dataset.obj)
        /\ tag_map = tag_map_of(dataset.obj, Len(dicom_files))
        /\ cursor_node = NoNode
        /\ screen = "main"
        /\ running = TRUE
        /\ SaveIdle
        /\ HistEmpty
        /\ ProbeIdle
        /\ EditIdle
        /\ RenderIdle
        /\ ViewIdle

NextEdit ==
    \/ action_cursor
    \/ action_view_image
    \/ action_edit_tag
    \/ \E value \in EditTexts : on_input_submitted(value)
    \/ on_key_escape
    \/ handle_edit_result
    \/ action_next_file
    \/ action_prev_file
    \/ run_callback

SpecEdit == InitEdit /\ [][NextEdit]_vars

(***************************************************************************)
(* The editability policy on its own: is_editable_tag applied to one       *)
(* element, drawn from identifiers and value kinds inside and outside the  *)
(* two lists.                                                              *)
(***************************************************************************)
ProbeTags ==
    {Tag(t[1], t[2]) : t \in critical_tags \cup slice_specific_tags}
        \cup {PatientName, Tag(16, 32)}
ProbeVRs == editable_vrs \cup {"UI", "UL", "US", "OB", "SQ", "UN"}

InitPolicy ==
    /\ dicom_files = <<1>>
    /\ current_index = 0
    /\ disk = [f \in Paths |-> IF f > 1 THEN NoFile ELSE encode(InitialDataset(f))]
    /\ bak = [f \in Paths |-> NoFile]
    /\ dataset = OwnDataset(dcmread(disk[1]))
    /\ all_datasets = <<>>
    /\ has_changes = FALSE
    /\ tree_nodes = tree_of(dataset.obj)
    /\ tag_map = tag_map_of(dataset.obj, 1)
    /\ cursor_node = NoNode
    /\ screen = "main"
    /\ running = TRUE
    /\ SaveIdle
    /\ HistEmpty
    /\ EditIdle
    /\ RenderIdle
    /\ ViewIdle
    /\ elem \in [tag : ProbeTags, VR : ProbeVRs]
    /\ editable = <<>>
    /\ CoerceIdle

\* is_editable_tag(elem) is called and returns
check_editable ==
    /\ editable = <<>>
    /\ editable' = <<is_editable_tag(elem)>>
    /\ UNCHANGED <<appvars, fsvars, savevars, histvars, editvars, elem, coerce_in,
                   converted, rendervars, viewvars>>

NextPolicy == check_editable

SpecPolicy == InitPolicy /\ [][NextPolicy]_vars

(***************************************************************************)
(* The coercion on its own: convert_value_for_vr applied to one text and   *)
(* one value kind.  The texts are all those of at most MaxLen characters   *)
(* over CoerceChars.                                                       *)
(***************************************************************************)
MaxLen == 3
CoerceChars == {"0", "7", ".", " ", "x", "n", "a"}
CoerceVRs == {"DS", "IS", "PN", "LO", "DA", "TM"}

RECURSIVE TextsOfLen(_)
TextsOfLen(n) ==
    IF n = 0 THEN {<<>>}
    ELSE {Append(t, c) : t \in TextsOfLen(n - 1), c \in CoerceChars}

CoerceTexts == UNION {TextsOfLen(n) : n \in 0 .. MaxLen}

\* the two ways a call of convert_value_for_vr ends
Raised == [raised |-> TRUE, result |-> [k |-> "none", s |-> <<>>]]
Returned(value) == [raised |-> FALSE, result |-> value]

InitCoerce ==
    /\ dicom_files = <<1>>
    /\ current_index = 0
    /\ disk = [f \in Paths |-> IF f > 1 THEN NoFile ELSE encode(InitialDataset(f))]
    /\ bak = [f \in Paths |-> NoFile]
    /\ dataset = OwnDataset(dcmread(disk[1]))
    /\ all_datasets = <<>>
    /\ has_changes = FALSE
    /\ tree_nodes = tree_of(dataset.obj)
    /\ tag_map = tag_map_of(dataset.obj, 1)
    /\ cursor_node = NoNode
    /\ screen = "main"
    /\ running = TRUE
    /\ SaveIdle
    /\ HistEmpty
    /\ EditIdle
    /\ RenderIdle
    /\ ViewIdle
    /\ elem = NoElement
    /\ editable = <<>>
    /\ coerce_in \in [value : CoerceTexts, vr : CoerceVRs]
    /\ converted = <<>>

\* convert_value_for_vr(value, vr) is called and returns or raises
call_convert ==
    /\ converted = <<>>
    /\ converted' = <<IF convert_raises(coerce_in.value, coerce_in.vr)
                      THEN Raised
                      ELSE Returned(convert_value_for_vr(coerce_in.value, coerce_in.vr))>>
    /\ UNCHANGED <<appvars, fsvars, savevars, histvars, editvars, elem, editable,
                   coerce_in, rendervars, viewvars>>

NextCoerce == call_convert

SpecCoerce == InitCoerce /\ [][NextCoerce]_vars

\* the app around a probe: one file, nothing edited, the image panel empty
ProbeApp ==
    /\ dicom_files = <<1>>
    /\ current_index = 0
    /\ disk = [f \in Paths |-> IF f > 1 THEN NoFile ELSE encode(InitialDataset(f))]
    /\ bak = [f \in Paths |-> NoFile]
    /\ dataset = OwnDataset(dcmread(disk[1]))
    /\ all_datasets = <<>>
    /\ has_changes = FALSE
    /\ tree_nodes = tree_of(dataset.obj)
    /\ tag_map = tag_map_of(dataset.obj, 1)
    /\ cursor_node = NoNode
    /\ screen = "main"
    /\ running = TRUE
    /\ SaveIdle
    /\ HistEmpty
    /\ ProbeIdle
    /\ EditIdle
    /\ ViewIdle

(***************************************************************************)
(* The quantize step on its own, applied to two intensities of the 8-bit   *)
(* image.                                                                  *)
(***************************************************************************)
MaxIntensity == 255
Intensities == 0 .. MaxIntensity

InitQuantize ==
    /\ ProbeApp
    /\ quant_in \in Intensities \X Intensities
    /\ quant_out = <<>>
    /\ shape_in = <<>>
    /\ planes = <<>>
    /\ render_in = NoRender
    /\ stage = "idle"
    /\ grid = <<>>

\* the quantize step runs on both intensities
call_quantize ==
    /\ quant_out = <<>>
    /\ quant_out' = <<quantize(quant_in[1]), quantize(quant_in[2])>>
    /\ UNCHANGED <<appvars, fsvars, savevars, histvars, probevars, editvars, viewvars>>
    /\ UNCHANGED <<quant_in, shape_in, planes, render_in, stage, grid>>

NextQuantize == call_quantize

SpecQuantize == InitQuantize /\ [][NextQuantize]_vars

(***************************************************************************)
(* Editing records that hold a sequence.  Every file lists two pieces of   *)
(* contributing equipment, each item with its manufacturer; the first file *)
(* also names the manufacturer of the device at the top of the record.     *)
(***************************************************************************)
EquipmentItem(text) ==
    (Manufacturer :> [VR |-> "LO", value |-> [k |-> "file", s |-> text]])

NestedDataset(f) ==
    InitialDataset(f)
    @@ (ContributingEquipmentSequence :>
            [VR |-> "SQ",
             value |-> [k |-> "file", s |-> <<EquipmentItem(<<"B">>), EquipmentItem(<<"C">>)>>]])
    @@ (IF f = 1
        THEN (Manufacturer :> [VR |-> "LO", value |-> [k |-> "file", s |-> <<"B">>]])
        ELSE <<>>)

InitNested ==
    \E n \in Paths :
        /\ dicom_files = [i \in 1 .. n |-> i]
        /\ current_index = 0
        /\ disk = [f \in Paths |-> encode(NestedDataset(f))]
        /\ bak = [f \in Paths |-> NoFile]
        /\ dataset = OwnDataset(dcmread(disk[1]))
        /\ all_datasets = IF n > 1 THEN load_all_datasets(<<>>, dicom_files, disk) ELSE <<>>
        /\ has_changes = FALSE
        /\ tree_nodes = tree_of(dataset.obj)
        /\ tag_map = tag_map_of(dataset.obj, Len(dicom_files))
        /\ cursor_node = NoNode
        /\ screen = "main"
        /\ running = TRUE
        /\ SaveIdle
        /\ HistEmpty
        /\ ProbeIdle
        /\ EditIdle
        /\ RenderIdle
        /\ ViewIdle

NextNested ==
    \/ action_cursor
    \/ action_edit_tag
    \/ \E value \in EditTexts : on_input_submitted(value)
    \/ on_key_escape
    \/ handle_edit_result
    \/ action_next_file
    \/ action_prev_file

SpecNested == InitNested /\ [][NextNested]_vars

(***************************************************************************)
(* The image view of a series of two slices, in a terminal with or without *)
(* sixel support: key events and the callbacks they schedule, in every     *)
(* order the queue allows.                                                 *)
(***************************************************************************)
InitView ==
    /\ dicom_files = <<1, 2>>
    /\ current_index = 0
    /\ disk = [f \in Paths |-> IF f > 2 THEN NoFile ELSE encode(SeriesDataset(f))]
    /\ bak = [f \in Paths |-> NoFile]
    /\ dataset = OwnDataset(dcmread(disk[1]))
    /\ all_datasets = load_all_datasets(<<>>, dicom_files, disk)
    /\ has_changes = FALSE
    /\ tree_nodes = tree_of(dataset.obj)
    /\ tag_map = tag_map_of(dataset.obj, Len(dicom_files))
    /\ cursor_node = NoNode
    /\ screen = "main"
    /\ running = TRUE
    /\ SaveIdle
    /\ HistEmpty
    /\ ProbeIdle
    /\ EditIdle
    /\ RenderIdle
    /\ current_preset = 0
    /\ sixel_supported \in BOOLEAN
    /\ use_sixel = FALSE
    /\ unicode_image = NoContent
    /\ image_widgets = <<>>
    /\ callbacks = <<>>
    /\ last_press = <<>>

NextView ==
    \/ on_key("w")
    \/ on_key("s")
    \/ action_toggle_sixel
    \/ action_view_image
    \/ action_next_file
    \/ action_prev_file
    \/ run_callback

SpecView == InitView /\ [][NextView]_vars

(***************************************************************************)
(* The rescale and windowing steps of a rendering, one after the other as  *)
(* pixel_array_to_unicode, get_pil_image_for_display and                   *)
(* pixel_array_to_sixel call them.  The stored samples, the record's       *)
(* rescale fields and the preset are drawn in the initial state; presets   *)
(* whose window is empty or inverted are drawn next to the built-in ones   *)
(* to reach the branch of apply_windowing that answers them.               *)
(***************************************************************************)
MaxPixels == 2

RawSamples == {0, 40, 889, 1024, 1064, 1239}
RawGrids == UNION {[1 .. n -> RawSamples] : n \in 1 .. MaxPixels}

SlopeTexts == {<<"1">>, <<"2">>}
InterceptTexts == {<<"0">>, <<"-", "1", "0", "2", "4">>}

\* a record with the rescale fields given (<<>>: the field is absent)
RescaledDataset(slope, intercept) ==
    SeriesDataset(1)
    @@ (IF slope = <<>> THEN <<>>
        ELSE (RescaleSlope :> [VR |-> "DS", value |-> [k |-> "file", s |-> slope[1]]]))
    @@ (IF intercept = <<>> THEN <<>>
        ELSE (RescaleIntercept :> [VR |-> "DS", value |-> [k |-> "file", s |-> intercept[1]]]))

RenderDatasets ==
    {RescaledDataset(sl, ic) :
        sl \in {<<>>} \cup {<<t>> : t \in SlopeTexts},
        ic \in {<<>>} \cup {<<t>> : t \in InterceptTexts}}

RenderPresets ==
    {window_presets[i] : i \in 1 .. Len(window_presets)}
    \cup {Preset("Empty", <<0>>, <<40>>), Preset("Inverted", <<-100>>, <<40>>)}

RenderPaths == {"unicode", "pil", "sixel"}

InitRender ==
    /\ ProbeApp
    /\ quant_in = <<0, 0>>
    /\ quant_out = <<>>
    /\ shape_in = <<>>
    /\ planes = <<>>
    /\ render_in \in [path : RenderPaths, ds : RenderDatasets,
                      pixel_array : RawGrids, preset : RenderPresets]
    /\ stage = "plane"
    /\ grid = render_in.pixel_array

\* pixel_array = self.apply_dicom_rescaling(pixel_array)
render_rescale ==
    /\ stage = "plane"
    /\ grid' = apply_dicom_rescaling(render_in.ds, grid)
    /\ stage' = "rescaled"
    /\ UNCHANGED <<appvars, fsvars, savevars, histvars, probevars, editvars, viewvars>>
    /\ UNCHANGED <<quant_in, quant_out, shape_in, planes, render_in>>

\* pixel_array = self.apply_windowing(pixel_array)
render_window ==
    /\ stage = "rescaled"
    /\ grid' = apply_windowing(grid, render_in.preset)
    /\ stage' = "windowed"
    /\ UNCHANGED <<appvars, fsvars, savevars, histvars, probevars, editvars, viewvars>>
    /\ UNCHANGED <<quant_in, quant_out, shape_in, planes, render_in>>

NextRender == render_rescale \/ render_window

SpecRender == InitRender /\ [][NextRender]_vars

(***************************************************************************)
(* The reduction of a multi-dimensional pixel array to a plane, on its     *)
(* own.  A plane is the map from its (row, column) to the index of the     *)
(* array the sample is read from; indices count from 0 as in the code.     *)
(***************************************************************************)
MaxAxis == 3
Axis(n) == 0 .. n - 1

\* pixel_array of two dimensions as it is
WholeGrid(shape) == [rc \in Axis(shape[1]) \X Axis(shape[2]) |-> rc]
\* pixel_array[0]
LeadingSlice(shape) ==
    [rc \in Axis(shape[2]) \X Axis(shape[3]) |-> <<0, rc[1], rc[2]>>]
\* pixel_array[:, :, 0]
FirstChannel(shape) ==
    [rc \in Axis(shape[1]) \X Axis(shape[2]) |-> <<rc[1], rc[2], 0>>]
\* pixel_array[0, 0]
Slice0Channel0(shape) ==
    [rc \in Axis(shape[3]) \X Axis(shape[4]) |-> <<0, 0, rc[1], rc[2]>>]

\* a reduction that takes the leading slice only when the first axis is
\* smaller than both other axes
plane_first_axis_smallest(shape) ==
    IF Len(shape) = 3
    THEN IF shape[1] < shape[3] /\ shape[1] < shape[2]
         THEN LeadingSlice(shape)
         ELSE FirstChannel(shape)
    ELSE IF Len(shape) = 4 THEN Slice0Channel0(shape)
    ELSE WholeGrid(shape)

\* the reduction of pixel_array_to_unicode
unicode_plane(shape) ==
    IF Len(shape) = 3
    THEN IF shape[1] < shape[3] THEN LeadingSlice(shape) ELSE FirstChannel(shape)
    ELSE IF Len(shape) = 4 THEN Slice0Channel0(shape)
    ELSE WholeGrid(shape)

\* the reduction of get_pil_image_for_display
pil_plane(shape) ==
    IF Len(shape) = 3
    THEN IF shape[1] < shape[3] THEN LeadingSlice(shape) ELSE FirstChannel(shape)
    ELSE IF Len(shape) = 4 THEN Slice0Channel0(shape)
    ELSE WholeGrid(shape)

\* the reduction of pixel_array_to_sixel
sixel_plane(shape) ==
    IF Len(shape) = 3
    THEN IF shape[1] < shape[3] THEN LeadingSlice(shape) ELSE FirstChannel(shape)
    ELSE IF Len(shape) = 4 THEN Slice0Channel0(shape)
    ELSE WholeGrid(shape)

Shapes == UNION {[1 .. n -> 1 .. MaxAxis] : n \in 2 .. 4}

InitPlane ==
    /\ ProbeApp
    /\ quant_in = <<0, 0>>
    /\ quant_out = <<>>
    /\ shape_in \in Shapes
    /\ planes = <<>>
    /\ render_in = NoRender
    /\ stage = "idle"
    /\ grid = <<>>

\* each rendering path reduces an array of the shape
reduce_to_plane ==
    /\ planes = <<>>
    /\ planes' = <<[unicode |-> unicode_plane(shape_in),
                    pil |-> pil_plane(shape_in),
                    sixel |-> sixel_plane(shape_in)]>>
    /\ UNCHANGED <<appvars, fsvars, savevars, histvars, probevars, editvars, viewvars>>
    /\ UNCHANGED <<quant_in, quant_out, shape_in, render_in, stage, grid>>

NextPlane == reduce_to_plane

SpecPlane == InitPlane /\ [][NextPlane]_vars

(***************************************************************************)
(* Claims about the write transaction.                                     *)
(***************************************************************************)
\* the files of the batch of the running save
batch == {save_items[i].path : i \in 1 .. Len(save_items)}
created_backups == {backup_files[i] : i \in 1 .. Len(backup_files)}

\* C1: when the write of a file fails during action_save_file, then after the
\* save returns a backup '<path>.bak' exists for that file and the file at the
\* original path is byte-identical to its content before the save started.
C1_FailedWriteLeavesOriginal ==
    pc = "returned" =>
        \A f \in write_failed : bak[f] # NoFile /\ disk[f] = disk0[f]

\* C2: after every save that completes without a write failure no backup file
\* exists for any file of the working set, also when a backup was already on
\* disk when the save started.  Stated for the saves in which no unlink raised,
\* the case in which the specification allows no orphan.
C2_NoBackupAfterSuccessfulSave ==
    (pc = "returned" /\ failed = {} /\ unlink_failed = {}) =>
        \A f \in batch : bak[f] = NoFile

\* C3: has_changes goes from set to cleared only inside a save in which the
\* backup and the write of every file of the batch succeeded; after a save in
\* which any file failed the flag is still set.
C3_FlagClearedOnlyByFullSave ==
    /\ [][(has_changes /\ ~has_changes') =>
            (pc = "cleanup" /\ failed = {} /\ written = batch)]_vars
    /\ []((pc = "returned" /\ failed # {}) => has_changes)

C3_Witness ==
    /\ pc = "returned"
    /\ ~has_changes
    /\ written = batch
    /\ Cardinality(batch) > 1

\* C4: the backup step of a save leaves a backup that is already on disk as
\* it is.
C4_ExistingBackupKept ==
    [][\A f \in Paths :
          (pc = "backup" /\ save_file = f /\ bak[f] # NoFile) => bak'[f] = bak[f]]_vars

\* the backup step has passed a file whose backup was on disk with other bytes
\* than the file has now
C4_Witness ==
    /\ pc = "write"
    /\ save_file \notin created_backups
    /\ bak[save_file] # NoFile
    /\ bak[save_file] # disk[save_file]

\* C5: a write failure on one file does not abort the batch: every other file
\* of the working set is still written in the same save call.
C5_FailureDoesNotAbortBatch ==
    (pc = "returned" /\ write_failed # {}) =>
        \A f \in batch \ write_failed : f \in written

\* C6: a save in which a file failed to write reports a PartialFailure outcome
\* to its caller.
C6_FailureReported ==
    (pc = "returned" /\ write_failed # {}) => save_result = "PartialFailure"

\* C7: the write over the original path is invoked only while a backup of that
\* file is on disk, and a backup is deleted only after the write of its file
\* has succeeded.
C7_BackupBeforeWriteBeforeCleanup ==
    /\ [](pc = "write" => bak[save_file] # NoFile)
    /\ [][\A f \in Paths : (bak[f] # NoFile /\ bak'[f] = NoFile) => f \in written]_vars

\* a backup made by this save was deleted after its file was written
C7_Witness ==
    /\ pc = "returned"
    /\ \E f \in created_backups : f \in written /\ bak[f] = NoFile

\* C8: when a save returns a backup is present for a file iff its write
\* failed; in particular, when a later file fails, the backups this save made
\* for the files written before it have been removed.
C8_WrittenFilesHaveNoBackup ==
    (pc = "returned" /\ write_failed # {}) =>
        \A f \in written \cap created_backups : bak[f] = NoFile

\* C9: an unlink that raises in cleanup_backup_files is not fatal: the flag is
\* cleared, every other backup the save made is deleted, and every file of the
\* batch holds what was written.
C9_UnlinkFailureNotFatal ==
    (pc = "returned" /\ unlink_failed # {}) =>
        /\ ~has_changes
        /\ \A b \in created_backups \ unlink_failed : bak[b] = NoFile
        /\ \A i \in 1 .. Len(save_items) :
              disk[save_items[i].path] = encode(save_items[i].ds)

\* an unlink raised and a backup after it in backup_files was still deleted
C9_Witness ==
    /\ pc = "returned"
    /\ ~has_changes
    /\ \E i, j \in 1 .. Len(backup_files) :
          /\ i < j
          /\ backup_files[i] \in unlink_failed
          /\ backup_files[j] \notin unlink_failed
          /\ bak[backup_files[j]] = NoFile

(***************************************************************************)
(* Claims about the editability policy.                                    *)
(***************************************************************************)
\* C10: for every element whose identifier is one of the seven structural
\* identifiers, is_editable_tag returns false whatever its value kind.
C10_CriticalNeverEditable ==
    (editable # <<>> /\ <<tag_group(elem.tag), tag_element(elem.tag)>> \in critical_tags)
        => editable = <<FALSE>>

\* the thirteen value kinds of the allow-list, as the specification names them
AllowListedKinds ==
    { "CS", "LO", "LT", "PN", "SH", "ST", "UT",     \* text kinds
      "DS", "IS",                                   \* decimal and integer strings
      "AS", "DA", "DT", "TM" }                      \* age, date, date-time, time

\* C11: for every element whose value kind is one of the thirteen allow-listed
\* kinds and whose identifier is not in the structural block-list,
\* is_editable_tag returns true; for every element whose value kind is outside
\* the allow-list it returns false.
C11_AllowListDecides ==
    editable # <<>> =>
        /\ (/\ elem.VR \in AllowListedKinds
            /\ <<tag_group(elem.tag), tag_element(elem.tag)>> \notin critical_tags)
               => editable = <<TRUE>>
        /\ elem.VR \notin AllowListedKinds => editable = <<FALSE>>

\* is_editable_tag has returned true for a decimal string outside the block-list
C11_Witness ==
    /\ editable = <<TRUE>>
    /\ elem.VR = "DS"
    /\ <<tag_group(elem.tag), tag_element(elem.tag)>> \notin critical_tags

(***************************************************************************)
(* Claims about the coercion.                                              *)
(***************************************************************************)
\* a text that is not empty and holds no digit
NonNumeric(t) == t # <<>> /\ \A i \in 1 .. Len(t) : ~IsDigit(t[i])

\* r is t with its leading and trailing whitespace removed, nothing else changed
IsTrimOf(r, t) ==
    /\ r = <<>> \/ (~IsSpace(r[1]) /\ ~IsSpace(r[Len(r)]))
    /\ \E i \in 1 .. Len(t) + 1 :
          /\ i + Len(r) - 1 <= Len(t)
          /\ r = SubSeq(t, i, i + Len(r) - 1)
          /\ \A j \in 1 .. Len(t) : (j < i \/ j > i + Len(r) - 1) => IsSpace(t[j])

\* C15: convert_value_for_vr maps the empty string to 0.0 for the decimal kind
\* (DS) and to 0 for the integer kind (IS), fails for every non-numeric string of
\* either kind, and for every other kind returns the input with leading and
\* trailing whitespace removed and nothing else changed.
C15_CoercionTable ==
    converted # <<>> =>
        LET value == coerce_in.value
            vr == coerce_in.vr
            out == converted[1]
        IN  /\ (vr = "DS" /\ value = <<>>) =>
                  out = Returned([k |-> "float", s |-> <<"0", ".", "0">>])
            /\ (vr = "IS" /\ value = <<>>) =>
                  out = Returned([k |-> "int", s |-> <<"0">>])
            /\ (vr \in {"DS", "IS"} /\ NonNumeric(value)) => out.raised
            /\ vr \notin {"DS", "IS"} =>
                  /\ ~out.raised
                  /\ out.result.k = "str"
                  /\ IsTrimOf(out.result.s, value)

(***************************************************************************)
(* Claims about the edit path.                                             *)
(***************************************************************************)
\* the records the session holds: those of the working set and, when
\* self.dataset is an object of its own, that object under the current path
records ==
    [f \in Keys(all_datasets) |-> Lookup(all_datasets, f)]
        @@ (IF dataset.key = NoKey THEN (NoKey :> dataset.obj) ELSE <<>>)

\* field t of record f is the same before and after the step, when the session
\* still holds the record
field_kept(f, t) ==
    f \in DOMAIN records' =>
        /\ t \in DOMAIN records'[f]
        /\ records'[f][t] = records[f][t]

\* C12: in multi-file mode no step of the session (edit dialog, navigation, view
\* toggle) changes the value of a per-instance (slice-specific) field in any
\* record of the working set, and no such field is offered for editing.
C12_SliceFieldsUntouched ==
    /\ [](Len(dicom_files) > 1 =>
            \A n \in DOMAIN tag_map : ~is_slice_specific_tag(tag_map[n].tag))
    /\ [][Len(dicom_files) > 1 =>
            \A f \in Keys(all_datasets) : \A t \in DOMAIN Lookup(all_datasets, f) :
                <<tag_group(t), tag_element(t)>> \in slice_specific_tags
                    => /\ f \in Keys(all_datasets')
                       /\ t \in DOMAIN Lookup(all_datasets', f)
                       /\ Lookup(all_datasets', f)[t] = Lookup(all_datasets, f)[t]]_vars

\* a bulk edit was applied, the view was toggled and another file is shown, and
\* every record still has the instance number of its file
C12_Witness ==
    /\ Len(dicom_files) > 1
    /\ has_changes
    /\ show_image
    /\ current_index # 0
    /\ \A f \in Keys(all_datasets) :
          Lookup(all_datasets, f)[InstanceNumber].value = [k |-> "file", s |-> InitialText(f)]

\* C13: in single-file and in multi-file mode no step of the session changes the
\* value of a field for which is_editable_tag is false, in any record the
\* session holds; no such field is offered for editing.
C13_PolicyFieldsUntouched ==
    /\ [](\A n \in DOMAIN tag_map :
            is_editable_tag([tag |-> tag_map[n].tag, VR |-> tag_map[n].vr]))
    /\ [][\A f \in DOMAIN records : \A t \in DOMAIN records[f] :
            ~is_editable_tag([tag |-> t, VR |-> records[f][t].VR])
                => field_kept(f, t)]_vars

\* single-file mode: an edit was applied to the name, the identifier of kind UI
\* has the value of the file
C13_Witness ==
    /\ Len(dicom_files) = 1
    /\ has_changes
    /\ Displayed[PatientName].value.k = "str"
    /\ Displayed[SOPInstanceUID].value = [k |-> "file", s |-> InitialText(1)]

\* the dialog was dismissed with a text for the field under the cursor, and the
\* coercion of the text to the kind of the field fails
coercion_fails ==
    /\ screen = "dismissed"
    /\ new_value # Escape
    /\ cursor_node \in DOMAIN tag_map
    /\ convert_raises(new_value, tag_map[cursor_node].vr)

\* C14: when the coercion of the submitted text fails (a non-numeric text for a
\* DS or IS field), the edit is rejected as a whole: no field of any record
\* changes and has_changes keeps the value it had.
C14_FailedCoercionRejected ==
    [][coercion_fails => UNCHANGED <<dataset, all_datasets, has_changes>>]_vars

\* multi-file mode with an earlier edit pending: a text that is no number was
\* submitted for the decimal field
C14_Witness ==
    /\ coercion_fails
    /\ Len(dicom_files) > 1
    /\ has_changes
    /\ tag_map[cursor_node].vr = "DS"
    /\ NonNumeric(new_value)

\* the step is the one of handle_edit_result, which closes the dismissed dialog
handler_ran == screen = "dismissed" /\ screen' = "main"

\* the dialog was dismissed in multi-file mode with a text that differs from the
\* shown value and that the coercion accepts: the bulk update runs
bulk_edit_due ==
    /\ screen = "dismissed"
    /\ Len(dicom_files) > 1
    /\ new_value # Escape
    /\ cursor_node \in DOMAIN tag_map
    /\ new_value # str(Displayed[tag_map[cursor_node].tag].value)
    /\ ~convert_raises(new_value, tag_map[cursor_node].vr)

\* the positions of the records that contain the tag and pass the policy
due_records(tag) ==
    {i \in 1 .. Len(all_datasets) :
        /\ tag \in DOMAIN all_datasets[i].ds
        /\ is_editable_tag([tag |-> tag, VR |-> all_datasets[i].ds[tag].VR])}

\* the positions of the records whose update fails: the element does not take
\* the value
failing_records(tag, value) ==
    {i \in due_records(tag) : set_raises(all_datasets[i].ds[tag].VR, value)}

\* C16: bulk_update_tag sets the field to the coerced value in exactly the
\* records that contain the field and pass the editability policy (and whose
\* update does not fail); every other record, and every other field, is
\* unchanged; a record lacking the field or failing during the update does not
\* keep the records after it from being updated.
C16_BulkUpdatesExactlyDueRecords ==
    [][(bulk_edit_due /\ handler_ran) =>
        LET tag == tag_map[cursor_node].tag
            coerced == convert_value_for_vr(new_value, tag_map[cursor_node].vr)
        IN  /\ Len(all_datasets') = Len(all_datasets)
            /\ \A i \in 1 .. Len(all_datasets) :
                  /\ all_datasets'[i].path = all_datasets[i].path
                  /\ DOMAIN all_datasets'[i].ds = DOMAIN all_datasets[i].ds
                  /\ \A t \in DOMAIN all_datasets[i].ds :
                        all_datasets'[i].ds[t] =
                            IF t = tag /\ i \in due_records(tag) \ failing_records(tag, coerced)
                            THEN [all_datasets[i].ds[t] EXCEPT !.value = coerced]
                            ELSE all_datasets[i].ds[t]]_vars

\* three records, the second lacks the weight: the first and the third hold the
\* coerced weight; the private field took the text in the third record after
\* the update of the first (kind IS) failed and the second (kind UN) was skipped
C16_Witness ==
    /\ Len(all_datasets) = 3
    /\ has_changes
    /\ PatientWeight \notin DOMAIN all_datasets[2].ds
    /\ all_datasets[1].ds[PatientWeight].value = [k |-> "float", s |-> <<"7", ".", "0">>]
    /\ all_datasets[3].ds[PatientWeight].value = [k |-> "float", s |-> <<"7", ".", "0">>]
    /\ all_datasets[1].ds[PrivateCode].value = [k |-> "file", s |-> <<"1">>]
    /\ all_datasets[2].ds[PrivateCode].value = [k |-> "file", s |-> <<"1">>]
    /\ all_datasets[3].ds[PrivateCode].value = [k |-> "str", s |-> <<"A">>]

\* C17: the bulk update returns the number of records it updated (2 for a
\* working set of three records of which one lacks the field).
C17_ReturnsUpdatedCount ==
    [][(bulk_edit_due /\ handler_ran) =>
        LET tag == tag_map[cursor_node].tag
            coerced == convert_value_for_vr(new_value, tag_map[cursor_node].vr)
        IN  bulk_returned' =
                <<Cardinality(due_records(tag) \ failing_records(tag, coerced))>>]_vars

\* the value strings the records of the working set hold for the tag
held_values(tag) ==
    {str(Lookup(all_datasets, f)[tag].value) :
        f \in {g \in Keys(all_datasets) : tag \in DOMAIN Lookup(all_datasets, g)}}

\* C18: is_tag_consistent_across_files reports Consistent exactly when the
\* working set has a single record or the records that contain the field hold at
\* most one distinct value string (records lacking the field contribute nothing),
\* carrying that value or None; with two or more distinct values it reports
\* Divergent with samples of the values, all of them when there are at most three.
C18_ConsistencyVerdict ==
    (screen = "edit" /\ consistency # <<>>) =>
        LET vals == held_values(tag_map[cursor_node].tag)
            r == consistency[1]
        IN  /\ r.is_consistent <=> (Len(all_datasets) <= 1 \/ Cardinality(vals) <= 1)
            /\ r.is_consistent => (r.value = <<>> \/ (r.value # <<>> /\ vals = {r.value[1]}))
            /\ (r.is_consistent /\ vals # {}) => r.value # <<>>
            /\ ~r.is_consistent =>
                  /\ r.samples \subseteq vals
                  /\ Cardinality(vals) <= 3 => r.samples = vals
                  /\ Cardinality(r.samples) <= 3
                  /\ r.more <=> Cardinality(vals) > 3

\* three records holding the names A, B, A: Divergent with the samples A and B
C18_Witness ==
    /\ screen = "edit"
    /\ Len(all_datasets) = 3
    /\ tag_map[cursor_node].tag = PatientName
    /\ all_datasets[1].ds[PatientName].value.s = <<"A">>
    /\ all_datasets[2].ds[PatientName].value.s = <<"B">>
    /\ all_datasets[3].ds[PatientName].value.s = <<"A">>
    /\ consistency = <<Divergent({<<"A">>, <<"B">>}, FALSE)>>

\* C19: a record of the working set is never replaced by a fresh decode: it
\* stays in the working set, only the edit handler changes it, and the record
\* shown for a file of the working set is the cached one with its unsaved edits.
C19_CachedRecordKept ==
    /\ []((running /\ Len(dicom_files) > 1 /\ current_file \in Keys(all_datasets))
            => Displayed = Lookup(all_datasets, current_file))
    /\ [][\A f \in Keys(all_datasets) :
            /\ f \in Keys(all_datasets')
            /\ screen # "dismissed" => Lookup(all_datasets', f) = Lookup(all_datasets, f)]_vars

\* the first file is shown from the cache with an unsaved edit the file on disk
\* does not have
C19_Witness ==
    /\ Len(dicom_files) > 1
    /\ current_index = 0
    /\ dataset.key = 1
    /\ has_changes
    /\ Displayed[PatientName].value = [k |-> "str", s |-> <<"7">>]
    /\ disk[1] = encode(SeriesDataset(1))

\* C20: a file whose decode failed when the working set was built is not in the
\* working set, and pydicom.dcmread is never called on it again, whatever
\* navigation follows.
C20_FailedDecodeNotRetried ==
    \A i \in 1 .. Len(dicom_files) :
        ~decodes(disk[dicom_files[i]]) =>
            /\ dicom_files[i] \notin Keys(all_datasets)
            /\ dicom_files[i] \notin dcmread_calls

(***************************************************************************)
(* Claims about the rendering pipeline.                                    *)
(***************************************************************************)
\* C24: the quantize step maps every intensity i of 0..255 to floor(i / 32)
\* clamped to 7: every level is in 0..7, and for i1 < i2 the level of i1 is at
\* most the level of i2.
C24_QuantizeMonotonic ==
    quant_out # <<>> =>
        /\ \A k \in 1 .. 2 :
              /\ quant_out[k] \in 0 .. 7
              /\ 32 * quant_out[k] <= quant_in[k]
              /\ quant_out[k] < 7 => quant_in[k] < 32 * (quant_out[k] + 1)
        /\ quant_in[1] < quant_in[2] => quant_out[1] <= quant_out[2]

\* the brightest intensity is on the top level, a darker one on a lower level
C24_Witness ==
    /\ quant_in = <<31, 255>>
    /\ quant_out = <<0, 7>>

\* C25: for a 3-D array the reduction picks the leading slice exactly when the
\* first axis is the smallest of the three axes and otherwise the first channel
\* of the last axis; for a 4-D array it picks slice 0, channel 0; the glyph path
\* and the bitmap path pick the same plane for every shape.
C25_PlaneByFirstAxisSmallest ==
    planes # <<>> =>
        /\ Len(shape_in) = 3 =>
              /\ (shape_in[1] < shape_in[2] /\ shape_in[1] < shape_in[3])
                    => planes[1].unicode = LeadingSlice(shape_in)
              /\ ~(shape_in[1] <= shape_in[2] /\ shape_in[1] <= shape_in[3])
                    => planes[1].unicode = FirstChannel(shape_in)
        /\ Len(shape_in) = 4 => planes[1].unicode = Slice0Channel0(shape_in)
        /\ planes[1].pil = planes[1].unicode

\* C25 as amended: for a 3-D array the reduction picks the leading slice exactly
\* when the first axis is smaller than the last axis (the middle axis is not
\* looked at) and otherwise the first channel of the last axis; for a 4-D array
\* slice 0, channel 0; the glyph, bitmap and sixel paths pick the same plane.
C25_PlaneByFirstAndLastAxis ==
    planes # <<>> =>
        /\ Len(shape_in) = 3 =>
              planes[1].unicode = IF shape_in[1] < shape_in[3]
                                  THEN LeadingSlice(shape_in)
                                  ELSE FirstChannel(shape_in)
        /\ Len(shape_in) = 4 => planes[1].unicode = Slice0Channel0(shape_in)
        /\ planes[1].pil = planes[1].unicode
        /\ planes[1].sixel = planes[1].unicode

\* shape (2, 1, 3): the first axis is smaller than the last and larger than the
\* middle one, and the leading slice was picked
C25_Witness ==
    /\ shape_in = <<2, 1, 3>>
    /\ planes # <<>>
    /\ planes[1].unicode = LeadingSlice(shape_in)
    /\ planes[1].unicode # FirstChannel(shape_in)

\* the slope and the intercept a record states, read off its rescale fields
stated_slope ==
    IF RescaleSlope \notin DOMAIN render_in.ds THEN 1
    ELSE IF render_in.ds[RescaleSlope].value.s = <<"2">> THEN 2 ELSE 1
stated_intercept ==
    IF RescaleIntercept \notin DOMAIN render_in.ds THEN 0
    ELSE IF render_in.ds[RescaleIntercept].value.s = <<"0">> THEN 0 ELSE 0 - 1024
\* the calibrated value of stored sample i
hu(i) == render_in.pixel_array[i] * stated_slope + stated_intercept
Pixels == 1 .. Len(render_in.pixel_array)
fixed_window == render_in.preset.name # "Auto" /\ render_in.preset.width # <<>>

\* C21: under a fixed preset of width W and center C, a sample at or below
\* C - W/2 maps to 0, one at or above C + W/2 maps to 255, and one in between
\* maps to the truncation of 255 * (sample - lower) / W; with W = 350, C = 40 the
\* sample 40 maps to 127 or 128; a preset whose upper bound does not exceed its
\* lower bound gives the all-zero grid.
C21_FixedWindow ==
    (stage = "windowed" /\ fixed_window) =>
        LET W == render_in.preset.width[1]
            C == render_in.preset.center[1]
        IN  \A i \in Pixels :
               /\ W <= 0 => grid[i] = 0
               /\ (W > 0 /\ 2 * hu(i) <= 2 * C - W) => grid[i] = 0
               /\ (W > 0 /\ 2 * hu(i) >= 2 * C + W) => grid[i] = 255
               /\ (W > 0 /\ 2 * hu(i) > 2 * C - W /\ 2 * hu(i) < 2 * C + W) =>
                     \* grid[i] <= 255 * (hu - lower) / W < grid[i] + 1
                     /\ 2 * W * grid[i] <= 255 * (2 * hu(i) - (2 * C - W))
                     /\ 255 * (2 * hu(i) - (2 * C - W)) < 2 * W * (grid[i] + 1)
               /\ (W = 350 /\ C = 40 /\ hu(i) = 40) => grid[i] \in {127, 128}

\* one sample below the soft-tissue window, one at its center
C21_Witness ==
    /\ stage = "windowed"
    /\ render_in.preset = Preset("Soft Tissue", <<350>>, <<40>>)
    /\ Len(grid) = 2
    /\ hu(1) = 0 - 135 /\ grid[1] = 0
    /\ hu(2) = 40 /\ grid[2] = 127

\* C22: under the auto preset the smallest value of the grid maps to 0, the
\* largest to 255 and every output lies in 0..255; a grid whose values are all
\* equal maps to all zeros.
C22_AutoWindow ==
    (stage = "windowed" /\ ~fixed_window) =>
        \A i \in Pixels :
           /\ grid[i] \in 0 .. 255
           /\ (\A j \in Pixels : hu(j) = hu(i)) => grid[i] = 0
           /\ (\E j \in Pixels : hu(j) # hu(i)) =>
                 /\ (\A j \in Pixels : hu(i) <= hu(j)) => grid[i] = 0
                 /\ (\A j \in Pixels : hu(i) >= hu(j)) => grid[i] = 255

C22_Witness ==
    /\ stage = "windowed"
    /\ render_in.preset.name = "Auto"
    /\ Len(grid) = 2
    /\ hu(1) > hu(2)
    /\ grid = <<255, 0>>

pressed(key) == last_press' # last_press /\ last_press'[1].key = key
LastPreset == Len(window_presets) - 1

\* C26: the current preset index is always within the list; while the image
\* view is shown 'w' moves to the next preset and 's' to the previous one, with
\* wrap-around at both ends; 's' after 'w' returns to the preset before the 'w';
\* nothing else moves the preset.
C26_PresetsCycle ==
    /\ [](current_preset \in 0 .. LastPreset)
    /\ [][/\ pressed("w") =>
                current_preset' = IF current_preset = LastPreset THEN 0
                                  ELSE current_preset + 1
          /\ pressed("s") =>
                current_preset' = IF current_preset = 0 THEN LastPreset
                                  ELSE current_preset - 1
          /\ (pressed("s") /\ last_press # <<>> /\ last_press[1].key = "w") =>
                current_preset' = last_press[1].from
          /\ last_press' = last_press => current_preset' = current_preset]_vars

\* 's' on the first preset wrapped around to the last one
C26_Witness ==
    /\ show_image
    /\ last_press = <<[key |-> "s", from |-> 0]>>
    /\ current_preset = LastPreset

\* what the image panel shows is the rendering of the record displayed under
\* the current preset, in the current mode, and nothing else
panel_is_current ==
    IF use_sixel /\ sixel_supported
    THEN /\ image_widgets = <<[id |-> unique_id(Displayed),
                               image |-> get_pil_image_for_display(Displayed, current_preset)]>>
         /\ unicode_image = NoContent
    ELSE /\ image_widgets = <<>>
         /\ unicode_image = pixel_array_to_unicode(Displayed, current_preset)

\* C27: whatever the order of key events and deferred callbacks, once no
\* callback is pending the image view shows exactly one image, the rendering of
\* the current file under the current preset, and no mount has failed on a
\* widget that was still mounted.
C27_DeferredRefreshShowsCurrent ==
    (show_image /\ callbacks = <<>>) => (running /\ panel_is_current)

\* the dialog was dismissed with a text that differs from the shown value and
\* that the coercion accepts: the handler is to apply the edit
edit_due ==
    /\ screen = "dismissed"
    /\ new_value # Escape
    /\ cursor_node \in DOMAIN tag_map
    /\ new_value # current_value
    /\ ~coercion_fails

\* the dialog was dismissed with the very text it showed
same_text_submitted ==
    /\ screen = "dismissed"
    /\ cursor_node \in DOMAIN tag_map
    /\ new_value = current_value

\* every field of record f but those at the given positions is the same before
\* and after the step
fields_kept_but(f, positions) ==
    /\ f \in DOMAIN records'
    /\ tree_of(records'[f]) = tree_of(records[f])
    /\ \A m \in tree_of(records[f]) \ positions :
          ElementAt(records[f], m.path, m.tag).VR # "SQ" =>
              ElementAt(records'[f], m.path, m.tag) = ElementAt(records[f], m.path, m.tag)

\* C28: after an accepted edit the selected field of the displayed record holds
\* the coerced value, in single-file and in multi-file mode and also when the
\* field lies in a sequence item; and in no record is a field with another
\* identifier or at another nesting position changed.
C28_EditWritesSelectedFieldOnly ==
    [][(edit_due /\ handler_ran) =>
          LET tag_info == tag_map[cursor_node]
              selected == [path |-> tag_info.path, tag |-> tag_info.tag]
          IN  /\ ElementAt(Displayed', selected.path, selected.tag).value
                    = convert_value_for_vr(new_value, tag_info.vr)
              /\ \A f \in DOMAIN records \cap DOMAIN records' :
                    fields_kept_but(f, {selected})]_vars

\* C29: an edit whose text is the string form of the displayed record's current
\* value changes no record and leaves the dirty flag as it was, in both modes,
\* whatever the other records hold for the field.
C29_SameTextChangesNothing ==
    [][(same_text_submitted /\ handler_ran) =>
          /\ records' = records
          /\ Displayed' = Displayed
          /\ has_changes' = has_changes]_vars

\* multi-file mode: the text shown for the patient's name of the first record
\* was submitted while the second record holds another name
C29_Witness ==
    /\ same_text_submitted
    /\ Len(dicom_files) > 1
    /\ tag_map[cursor_node].tag = PatientName
    /\ \E f \in Keys(all_datasets) :
          str(Lookup(all_datasets, f)[PatientName].value) # new_value

====
